---- MODULE Spec2Model ----
(***************************************************************************)
(* A model of rgm3800.py, the host-side driver of the RGM-3800 GPS data    *)
(* logger.  The driver is modelled layer by layer, each layer with its own *)
(* specification over its own group of variables:                          *)
(*                                                                         *)
(*   SpecSendRecv   RGM3800Base.SendRecv, the command engine (line level)  *)
(*   SpecSession    GetInfo / SetInterval / SetFormat / SetMemoryFull      *)
(*   SpecRetrieve   _RetrieveWaypoints and GetWaypoints (bulk retrieval)   *)
(*   SpecFramer     RecvMessage, the byte-level framer                     *)
(*                                                                         *)
(* Python byte strings are sequences: of one-character strings at the line *)
(* level, of byte values (0..255) in the framer, where the checksum is     *)
(* computed.  Python's None and the empty list are both <<>> (both falsy). *)
(***************************************************************************)
EXTENDS Integers, Sequences, FiniteSets, TLC

VARIABLES
  \* ---- SendRecv (src/rgm3800.py:588-642)
  request,          \* the command to send
  result,           \* prefix of the lines to return, <<>> for None
  lines,            \* number of lines to return
  result_lines,     \* the list SendRecv collects and returns
  i,                \* the for loop's index, range(5)
  lines_acceptable, \* the noise budget of the running attempt
  srPc,             \* "loop" | "recv" | "after" | "done"
  srOutcome,        \* "none" | "returned" | "raised"
  sends,            \* history: SendMessage calls made by this SendRecv
  carried,          \* history: Len(result_lines) when the running attempt began
  kept,             \* history: lines appended during the running attempt
  silent,           \* history: RecvMessage has returned no line so far
  received,         \* history: lines RecvMessage returned since the last send
  \* ---- the device session (src/rgm3800.py:458-462, 674-715)
  cached_info,      \* self._cached_info, <<>> for None
  devInterval,      \* the device: its configured logging interval
  devFormat,        \* the device: its configured logging format
  devMemFull,       \* the device: its memory-full policy (0 overwrite, 1 stop)
  lastOp,           \* history: the session call made last
  lastArg,          \* history: its argument
  lastSent,         \* history: the commands it handed to SendRecv, in order
  lastCmd,          \* history: <<interval, format, memoryfull>> of its PROY104
  lastStatus,       \* history: the status field of the LOG104 reply it got
  lastRet,          \* history: what it returned, or "raised"
  devBefore,        \* history: the device's configuration when it was called
  allOk,            \* history: every set call so far was answered LOG104,1
  \* ---- bulk retrieval (src/rgm3800.py:736-826)
  devMem,           \* the device: its stored records, in memory order
  devPending,       \* the device: records of the last PROY102 still to send
  address,          \* _RetrieveWaypoints: argument, a byte address
  format,           \* _RetrieveWaypoints: argument
  amount,           \* _RetrieveWaypoints: argument, the page's target count
  retries,          \* _RetrieveWaypoints: requests left
  retrieved,        \* _RetrieveWaypoints: wire records counted so far
  noise,            \* _RetrieveWaypoints: noise counted in the running attempt
  wps,              \* _RetrieveWaypoints: waypoints decoded in the running attempt
  rwPc,             \* "idle" | "loop" | "recv" | "done"
  rwOutcome,        \* "none" | "returned" | "raised" | "noise"
  rwCaller,         \* "direct" | "GetWaypoints"
  rwSends,          \* history: PROY102 requests sent for this page
  rwArrived,        \* history: wire records RecvMessage delivered after the
                    \* first request, before any second one
  rwBeat,           \* history: parity of the lines ignored in a row
  rwOther,          \* history: lines of this attempt that were no LOG102 lines
  gwTrack,          \* GetWaypoints: <<format, count, first record>> of the track
  gwPc,             \* GetWaypoints: "idle" | "page" | "done"
  gwOutcome,        \* "none" | "returned" | "raised" | "TypeError"
  number,           \* GetWaypoints: the track's waypoint count
  gwLeft,           \* GetWaypoints: _number, waypoints still to request
  gwAddress,        \* GetWaypoints: address of the next page
  packages,         \* GetWaypoints: number of pages
  gwI,              \* GetWaypoints: the for loop's index
  waypoints,        \* GetWaypoints: the waypoints gathered
  progress,         \* history: the values given to SetProgressPercent
  pages,            \* history: <<address, count>> of every page requested
  \* ---- the framer (src/rgm3800.py:486-586)
  stream,           \* the bytes conn.read(1) is still to deliver, in order
  state,            \* RecvMessage: the state of its state machine
  msg,              \* RecvMessage: the bytes gathered
  frPc,             \* "idle" | "run" | "done"
  frRet,            \* what RecvMessage returned, "none" before
  frIn,             \* history: the lines the stream was made of
  frDropped,        \* history: lines dropped for a checksum mismatch
  \* ---- the transport, TermiosSerial (src/rgm3800.py:85-230)
  receiver_running, \* self.__receiver_running
  fd,               \* self._fd: the descriptor, or FdNone
  buffer,           \* self.__buffer: the queue of chunks the receiver put
  buffer2,          \* self.__buffer2: a chunk taken from the queue, <<>> if None
  rtPc,             \* the receiver thread's position
  rtExc,            \* the exception the receiver thread ended with
  fgPc,             \* the foreground thread's position
  fgOutcome,        \* how the last foreground call ended
  length,           \* read: bytes still wanted
  data,             \* read: bytes gathered
  now,              \* read: polling periods slept since the call began
  kernel,           \* bytes the device sent that os.read has not fetched
  sent,             \* bytes the device has sent so far (they are 1, 2, ...)
  osOpen,           \* whether the descriptor is open in the OS
  closeCalls,       \* history: os.close calls issued on the descriptor
  useAfter,         \* history: an os.read / os.write met a released descriptor
  written,          \* history: os.write calls that reached the descriptor
  closed,           \* history: a close() has returned
  calls,            \* history: foreground calls begun
  call,             \* history: what held when the current call began
  \* ---- GetTimestamp and Erase (src/rgm3800.py:644-654, 828-842)
  devClock,         \* the device's date and time, NoLock without a lock
  cmOp,             \* the call made last
  cmReply,          \* history: the line its SendRecv returned, <<>> if none
  cmRet,            \* what the call returned or raised
  cmSent,           \* history: the request it sent
  cmWaited,         \* history: Erase waited for the device to fall silent
  \* ---- RGM3800Waypoint.Parse (src/rgm3800.py:296-325)
  wpFormat,         \* self.format
  wpData,           \* data, the bytes of the record
  wpOutcome         \* how Parse ended

srVars == <<request, result, lines, result_lines, i, lines_acceptable, srPc,
            srOutcome, sends, carried, kept, silent, received>>

seVars == <<cached_info, devInterval, devFormat, devMemFull, lastOp, lastArg,
            lastSent, lastCmd, lastStatus, lastRet, devBefore, allOk>>

rwVars == <<devMem, devPending, address, format, amount, retries,
            retrieved, noise, wps, rwPc, rwOutcome, rwCaller, rwSends,
            rwArrived, rwBeat, rwOther>>

gwVars == <<gwPc, gwOutcome, gwTrack, number, gwLeft, gwAddress, packages, gwI,
            waypoints, progress, pages>>

frVars == <<stream, state, msg, frPc, frRet, frIn, frDropped>>

tsVars ==
  <<receiver_running, fd, buffer, buffer2, rtPc, rtExc, fgPc, fgOutcome,
    length, data, now, kernel, sent, osOpen, closeCalls, useAfter, written,
    closed, calls, call>>

cmVars == <<devClock, cmOp, cmReply, cmRet, cmSent, cmWaited>>

wpVars == <<wpFormat, wpData, wpOutcome>>

vars == <<srVars, seVars, rwVars, gwVars, frVars, tsVars, cmVars, wpVars>>

\* What a step of one layer leaves alone: the variables of the other layers.
notSR == <<seVars, rwVars, gwVars, frVars, tsVars, cmVars, wpVars>>
notSE == <<srVars, rwVars, gwVars, frVars, tsVars, cmVars, wpVars>>
notRW == <<srVars, seVars, frVars, tsVars, cmVars, wpVars>>
notFR == <<srVars, seVars, rwVars, gwVars, tsVars, cmVars, wpVars>>
notTS == <<srVars, seVars, rwVars, gwVars, frVars, cmVars, wpVars>>
notCM == <<srVars, seVars, rwVars, gwVars, frVars, tsVars, wpVars>>
notWP == <<srVars, seVars, rwVars, gwVars, frVars, tsVars, cmVars>>

(***************************************************************************)
(* Bounds of the model.                                                    *)
(***************************************************************************)
\* Largest `lines` argument SendRecv is called with.
MaxLines == 2
\* Most lines per attempt that the device sends and SendRecv keeps.
MaxKept == 2
\* Logging intervals run over 1..MaxInterval.
MaxInterval == 2
\* Logging formats run over 0..MaxFormat (the device knows 0..4).
MaxFormat == 1
\* Records in the device's memory.
MemSize == 2
\* Most records the device packs into one LOG102 line.
MaxPerLine == 2
\* Lines that are no LOG102 lines arrive NoiseBurst at a time.
NoiseBurst == 100
\* Most bytes of a payload after its three-character tag.
MaxTail == 1
\* Bytes the device sends to the transport in all.
MaxBytes == 2
\* Most bytes one read asks for.
MaxRead == 2
\* Foreground calls (read, write, close) made on one transport.
MaxCalls == 3
\* The deadline of read, 1.0 s, in polling periods (sleeps of read's loop).
Deadline == 1

(***************************************************************************)
(* Python helpers.                                                         *)
(***************************************************************************)
\* bytes.startswith
StartsWith(line, prefix) ==
  /\ Len(prefix) <= Len(line)
  /\ SubSeq(line, 1, Len(prefix)) = prefix

\* Truth value of a list, a byte string or None.
Truthy(x) == x # <<>>

\* Python values that carry their type: b'...' and '...'.
Bytes(s) == [type |-> "bytes", val |-> s]
Str(s) == [type |-> "str", val |-> s]
\* a == b: a bytes object and a str are never equal.
PyEq(a, b) == a.type = b.type /\ a.val = b.val

\* seq[k] with Python's indices, from 0.
Item(seq, k) == seq[k + 1]

(***************************************************************************)
(* SendRecv.                                                               *)
(***************************************************************************)
\* A loop that gives up one attempt early.
AttemptsShort == 5 - 1
\* range(5), the number of attempts of SendRecv.
Attempts == 5
\* The base of the noise budget, lines_acceptable = 20 + 5*lines.
BaseAcceptable == 20
PerLineAcceptable == 5

\* Lines RecvMessage can return: two device replies and one unrelated line.
LOG108a == <<"L", "8", "a">>
LOG108b == <<"L", "8", "b">>
PSRFTXT == <<"P", "S">>
Messages == {LOG108a, LOG108b, PSRFTXT}
\* The `result` arguments: None, and the prefix of the reply.
Prefixes == {<<>>, <<"L", "8">>}
Requests == {<<"P", "8">>}

SRInit ==
  /\ request \in Requests
  /\ result \in Prefixes
  /\ lines \in 0..MaxLines
  /\ result_lines = <<>>
  /\ i = 0
  /\ lines_acceptable = 0
  /\ srPc = "loop"
  /\ srOutcome = "none"
  /\ sends = 0
  /\ carried = 0
  /\ kept = 0
  /\ silent = TRUE
  /\ received = 0

\* SendRecv before any call: the state of the layers that do not run it.
SRIdle ==
  /\ request = <<>>
  /\ result = <<>>
  /\ lines = 0
  /\ result_lines = <<>>
  /\ i = 0
  /\ lines_acceptable = 0
  /\ srPc = "idle"
  /\ srOutcome = "none"
  /\ sends = 0
  /\ carried = 0
  /\ kept = 0
  /\ silent = TRUE
  /\ received = 0

\* for i in range(5): SendMessage(request); lines_acceptable = 20 + 5*lines
SRSend ==
  /\ UNCHANGED notSR
  /\ srPc = "loop"
  /\ i < Attempts
  /\ sends' = sends + 1
  /\ lines_acceptable' = BaseAcceptable + PerLineAcceptable * lines
  /\ carried' = Len(result_lines)
  /\ kept' = 0
  /\ received' = 0
  /\ srPc' = "recv"
  /\ UNCHANGED <<request, result, lines, result_lines, i, srOutcome, silent>>

\* Whether SendRecv keeps the line msg: not result or msg.startswith(result)
Accepts(line) == ~Truthy(result) \/ StartsWith(line, result)

\* A test that never stops the inner loop.
CompleteNever(rl) == FALSE

\* The inner loop stops: lines and lines == len(result_lines)
Complete(rl) == lines # 0 /\ lines = Len(rl)

\* One pass of the while loop in which RecvMessage returns a line (msg in the source).
SRRecvLine(line) ==
  /\ UNCHANGED notSR
  /\ srPc = "recv"
  /\ Accepts(line) => kept < MaxKept
  /\ LET rl == IF Accepts(line) THEN Append(result_lines, line) ELSE result_lines
     IN /\ result_lines' = rl
        /\ lines_acceptable' = lines_acceptable - 1
        /\ kept' = IF Accepts(line) THEN kept + 1 ELSE kept
        /\ srPc' = IF Complete(rl) \/ lines_acceptable - 1 = 0
                   THEN "after" ELSE "recv"
  /\ silent' = FALSE
  /\ received' = received + 1
  /\ UNCHANGED <<request, result, lines, i, srOutcome, sends, carried>>

\* One pass of the while loop in which RecvMessage times out (returns b'').
SRRecvTimeout ==
  /\ UNCHANGED notSR
  /\ srPc = "recv"
  /\ srPc' = "after"
  /\ UNCHANGED <<request, result, lines, result_lines, i, lines_acceptable,
                 srOutcome, sends, carried, kept, silent, received>>

\* A retry test that forgets the line count.
RetryOnlyWhenEmpty(rl) == ~Truthy(rl)

\* The attempt failed: nothing collected, or not the wanted number of lines.
Retry(rl) == ~Truthy(rl) \/ (lines # 0 /\ lines # Len(rl))

\* The end of an attempt: retry (continue) or return result_lines.
SRAfter ==
  /\ UNCHANGED notSR
  /\ srPc = "after"
  /\ IF Retry(result_lines)
     THEN /\ i' = i + 1
          /\ srPc' = "loop"
          /\ srOutcome' = srOutcome
     ELSE /\ i' = i
          /\ srPc' = "done"
          /\ srOutcome' = "returned"
  /\ UNCHANGED <<request, result, lines, result_lines, lines_acceptable,
                 sends, carried, kept, silent, received>>

\* The for loop is exhausted: raise SerialCommunicationError.
SRRaise ==
  /\ UNCHANGED notSR
  /\ srPc = "loop"
  /\ i >= Attempts
  /\ srPc' = "done"
  /\ srOutcome' = "raised"
  /\ UNCHANGED <<request, result, lines, result_lines, i, lines_acceptable,
                 sends, carried, kept, silent, received>>

SRNext ==
  \/ SRSend
  \/ \E line \in Messages : SRRecvLine(line)
  \/ SRRecvTimeout
  \/ SRAfter
  \/ SRRaise

(***************************************************************************)
(* The device session: GetInfo and the three configuration calls.  Each    *)
(* call is one action.  A SendRecv of one line either returns the device's *)
(* reply or raises SerialCommunicationError (its five attempts failed).    *)
(***************************************************************************)
Intervals == 1..MaxInterval
Formats == 0..MaxFormat
Policies == {"overwrite", "stop"}

\* The nine integers of the device's LOG108 reply, as GetInfo parses them:
\* data type, ?, ?, memory full, ?, interval, ?, #tracks, #waypoints.
LOG108(fmt, mem, ival) == <<fmt, 0, 0, mem, 0, ival, 0, 1, 0>>

DevConfig == <<devInterval, devFormat, devMemFull>>

SEInit ==
  /\ cached_info = <<>>
  /\ devInterval \in Intervals
  /\ devFormat \in Formats
  /\ devMemFull \in {0, 1}
  /\ lastOp = "none"
  /\ lastArg = 0
  /\ lastSent = <<>>
  /\ lastCmd = <<>>
  /\ lastStatus = "none"
  /\ lastRet = "none"
  /\ devBefore = <<>>
  /\ allOk = TRUE

\* The session before any call: the state of the layers that do not run it.
SEIdle ==
  /\ cached_info = <<>>
  /\ devInterval = 1
  /\ devFormat = 0
  /\ devMemFull = 0
  /\ lastOp = "none"
  /\ lastArg = 0
  /\ lastSent = <<>>
  /\ lastCmd = <<>>
  /\ lastStatus = "none"
  /\ lastRet = "none"
  /\ devBefore = <<>>
  /\ allOk = TRUE

\* A GetInfo that never looks at its cache.
InfoCachedNever == FALSE

\* GetInfo sends PROY108 only when nothing is cached.
InfoCached == Truthy(cached_info)

\* What GetInfo returns when it does not raise: the cache, or the reply.
InfoResult == IF InfoCached THEN cached_info
              ELSE LOG108(devFormat, devMemFull, devInterval)

\* The commands GetInfo hands to SendRecv.
InfoSent == IF InfoCached THEN <<>> ELSE <<"PROY108">>

\* GetInfo; ok: its SendRecv, if any, returns the LOG108 line.
GetInfo(ok) ==
  /\ UNCHANGED notSE
  /\ lastOp' = "GetInfo"
  /\ lastArg' = 0
  /\ lastSent' = InfoSent
  /\ lastCmd' = <<>>
  /\ lastStatus' = "none"
  /\ devBefore' = DevConfig
  /\ IF InfoCached \/ ok
     THEN /\ cached_info' = InfoResult
          /\ lastRet' = InfoResult
     ELSE /\ cached_info' = cached_info
          /\ lastRet' = "raised"
  /\ UNCHANGED <<devInterval, devFormat, devMemFull, allOk>>

\* The return value of a set call: result == '1', result the bytes of the
\* status field of the LOG104 line.
SetResult(status) == PyEq(Bytes(status), Str("1"))

\* The replies to PROY104: LOG104,1 (applied), LOG104,0 (refused), and no
\* reply that SendRecv gets hold of, the command applied or not.
Replies104 == {"1", "0", "lost", "lostApplied"}

\* A configuration call: GetInfo, then SendRecv of PROY104 with cmd(info).
\* ok: GetInfo's SendRecv, if any, succeeds;  reply: what PROY104 meets.
SetConfig(op, arg, cmd, ok, reply) ==
  /\ UNCHANGED notSE
  /\ lastOp' = op
  /\ lastArg' = arg
  /\ devBefore' = DevConfig
  /\ IF InfoCached \/ ok
     THEN /\ cached_info' = InfoResult
          /\ lastSent' = InfoSent \o <<"PROY104">>
          /\ lastCmd' = cmd
          /\ IF reply \in {"1", "lostApplied"}
             THEN /\ devInterval' = cmd[1]
                  /\ devFormat' = cmd[2]
                  /\ devMemFull' = cmd[3]
             ELSE UNCHANGED <<devInterval, devFormat, devMemFull>>
          /\ IF reply \in {"1", "0"}
             THEN /\ lastStatus' = reply
                  /\ lastRet' = SetResult(reply)
             ELSE /\ lastStatus' = "none"
                  /\ lastRet' = "raised"
          /\ allOk' = (allOk /\ reply = "1")
     ELSE /\ cached_info' = cached_info
          /\ lastSent' = InfoSent
          /\ lastCmd' = <<>>
          /\ lastStatus' = "none"
          /\ lastRet' = "raised"
          /\ allOk' = FALSE
          /\ UNCHANGED <<devInterval, devFormat, devMemFull>>

\* SetInterval(interval): format = info[0], memoryfull = info[3]
SetInterval(interval, ok, reply) ==
  SetConfig("SetInterval", interval,
            <<interval, Item(InfoResult, 0), Item(InfoResult, 3)>>, ok, reply)

\* SetFormat(format): memoryfull = info[3], interval = info[5]
SetFormat(fmt, ok, reply) ==
  SetConfig("SetFormat", fmt,
            <<Item(InfoResult, 5), fmt, Item(InfoResult, 3)>>, ok, reply)

\* ['overwrite', 'stop'].index(memoryfull)
PolicyIndex(memoryfull) == IF memoryfull = "overwrite" THEN 0 ELSE 1

\* SetMemoryFull(memoryfull): format = info[0], interval = info[5]
SetMemoryFull(memoryfull, ok, reply) ==
  SetConfig("SetMemoryFull", memoryfull,
            <<Item(InfoResult, 5), Item(InfoResult, 0), PolicyIndex(memoryfull)>>,
            ok, reply)

\* The replies to PROY103: LOG103,1, LOG103,0, and no reply that SendRecv
\* gets hold of.
Replies103 == {"1", "0", "lost"}

\* SetGPSMouse(enabled): SendRecv of PROY103,0,<i>, i = 1 if enabled else 0.
SetGPSMouse(enabled, reply) ==
  /\ UNCHANGED notSE
  /\ lastOp' = "SetGPSMouse"
  /\ lastArg' = IF enabled THEN 1 ELSE 0
  /\ devBefore' = DevConfig
  /\ lastSent' = <<"PROY103">>
  /\ lastCmd' = <<>>
  /\ IF reply \in {"1", "0"}
     THEN /\ lastStatus' = reply
          /\ lastRet' = SetResult(reply)
     ELSE /\ lastStatus' = "none"
          /\ lastRet' = "raised"
  /\ UNCHANGED <<cached_info, devInterval, devFormat, devMemFull, allOk>>

SENext ==
  \/ \E ok \in BOOLEAN : GetInfo(ok)
  \/ \E enabled \in BOOLEAN, reply \in Replies103 :
       SetGPSMouse(enabled, reply)
  \/ \E v \in Intervals, ok \in BOOLEAN, reply \in Replies104 :
       SetInterval(v, ok, reply)
  \/ \E f \in Formats, ok \in BOOLEAN, reply \in Replies104 :
       SetFormat(f, ok, reply)
  \/ \E m \in Policies, ok \in BOOLEAN, reply \in Replies104 :
       SetMemoryFull(m, ok, reply)

(***************************************************************************)
(* Python numbers.  `/` is true division and gives a float; divmod with a  *)
(* float gives floats; range() takes integers only.  Every float that      *)
(* arises here is whole (each record length divides 4800), so a number is  *)
(* its type and its value.                                                 *)
(***************************************************************************)
PyInt(n) == [t |-> "int", v |-> n]
PyFloat(n) == [t |-> "float", v |-> n]
\* a / b, for b a divisor of a
TrueDiv(a, b) == PyFloat(a.v \div b.v)
NumType(a, b) == IF a.t = "float" \/ b.t = "float" THEN "float" ELSE "int"
\* divmod(a, b)
DivMod(a, b) == <<[t |-> NumType(a, b), v |-> a.v \div b.v],
                  [t |-> NumType(a, b), v |-> a.v % b.v]>>
\* a + b
PyAdd(a, b) == [t |-> NumType(a, b), v |-> a.v + b.v]
\* min(a, b): the first of the smallest
PyMin(a, b) == IF b.v < a.v THEN b ELSE a
\* range(n) raises TypeError unless n is an int.
RangeOk(n) == n.t = "int"

(***************************************************************************)
(* Waypoint records.                                                       *)
(***************************************************************************)
\* RGM3800Waypoint.FORMATS[format]['rawlen']
RawLen(fmt) == CASE fmt = 0 -> 12
                 [] fmt = 1 -> 16
                 [] fmt = 2 -> 20
                 [] fmt = 3 -> 24
                 [] fmt = 4 -> 60

\* A stored record: its place in memory (standing for its position fields),
\* its first byte (the fix-ok flag) and whether h, m, s form a time of day.
Records == {r \in [id : 1..MemSize, ok : {0, 1}, hms : BOOLEAN] :
              r.ok = 0 => r.hms}

\* Parse succeeds (no ValueError): ok == 1 and datetime.time(h, m, s) exists.
Parses(rec) == rec.ok = 1 /\ rec.hms

\* A count of the records that decoded only.
CountedDecoded(recs) == Len(SelectSeq(recs, LAMBDA r : r.ok = 1 /\ r.hms))

\* retrieved += 1 for every record sliced off a line, decoded or not.
Counted(recs) == Len(recs)

\* The waypoints a line's records decode to, in order: wps.append(wp) for
\* each record that parses.
RECURSIVE Decoded(_)
Decoded(recs) ==
  IF recs = <<>> THEN <<>>
  ELSE (IF Parses(Head(recs)) THEN <<Head(recs)>> ELSE <<>>)
       \o Decoded(Tail(recs))

(***************************************************************************)
(* _RetrieveWaypoints(address, format, amount).  The device answers a      *)
(* PROY102 with the requested records, in order, packed into LOG102 lines; *)
(* lines can be lost on the way (the framer drops a line whose checksum    *)
(* fails), the device can fall silent, and other lines can arrive.         *)
(***************************************************************************)
\* A budget of one request more.
RetriesLong == 5 + 1
\* retries = 5
Retries == 5
\* if noise > 100: raise
NoiseLimit == 100
\* noise += 20 for a LOG102 line without a complete header
HeaderPenalty == 20
\* bytes_per_request = 4800
BytesPerRequest == 4800

\* The records a PROY102,address,format,amount asks for.
Requested(addr, fmt, amt) ==
  LET first == addr \div RawLen(fmt)
  IN  [k \in 1..amt |-> devMem[first + k]]

GWIdle ==
  /\ gwPc = "idle"
  /\ gwOutcome = "none"
  /\ gwTrack = <<>>
  /\ number = 0
  /\ gwLeft = PyInt(0)
  /\ gwAddress = PyInt(0)
  /\ packages = PyInt(0)
  /\ gwI = 0
  /\ waypoints = <<>>
  /\ progress = <<>>
  /\ pages = <<>>

RWLocalsIdle ==
  /\ devPending = <<>>
  /\ address = 0
  /\ format = 0
  /\ amount = 0
  /\ retries = 0
  /\ retrieved = 0
  /\ noise = 0
  /\ wps = <<>>
  /\ rwPc = "idle"
  /\ rwOutcome = "none"
  /\ rwCaller = "none"
  /\ rwSends = 0
  /\ rwArrived = 0
  /\ rwBeat = FALSE
  /\ rwOther = 0

\* The device's memory: MemSize records, any of them possibly stored broken.
Memories ==
  {mem \in [1..MemSize -> Records] : \A k \in 1..MemSize : mem[k].id = k}

RWInit ==
  /\ devMem \in Memories
  /\ RWLocalsIdle
  /\ GWIdle

\* Retrieval before any call: the state of the layers that do not run it.
RWIdle ==
  /\ devMem = [k \in 1..MemSize |-> [id |-> k, ok |-> 1, hms |-> TRUE]]
  /\ RWLocalsIdle
  /\ GWIdle

\* The locals of _RetrieveWaypoints on entry (lines 737-739).
RWEnter(addr, fmt, amt, caller) ==
  /\ address' = addr
  /\ format' = fmt
  /\ amount' = amt
  /\ retries' = Retries
  /\ retrieved' = 0
  /\ noise' = 0
  /\ wps' = <<>>
  /\ rwPc' = "loop"
  /\ rwOutcome' = "none"
  /\ rwCaller' = caller
  /\ rwSends' = 0
  /\ rwArrived' = 0
  /\ rwBeat' = FALSE
  /\ rwOther' = 0
  /\ devPending' = <<>>

\* The format of direct calls: the shortest record.
CallFormats == {0}

\* A direct call, as GetFirstLastWaypoints makes: records first+1..first+amt.
RWCall(first, fmt, amt) ==
  /\ UNCHANGED notRW
  /\ rwPc = "idle" /\ gwPc = "idle"
  /\ first + amt <= MemSize
  /\ RWEnter(first * RawLen(fmt), fmt, amt, "direct")
  /\ UNCHANGED <<devMem, gwVars>>

\* while retrieved != amount: ... SendMessage(PROY102); retries -= 1
RWSend ==
  /\ UNCHANGED notRW
  /\ rwPc = "loop"
  /\ retrieved # amount
  /\ retries > 0
  /\ retries' = retries - 1
  /\ noise' = 0
  /\ wps' = <<>>
  /\ rwOther' = 0
  /\ rwSends' = rwSends + 1
  /\ devPending' = Requested(address, format, amount)
  /\ rwPc' = "recv"
  /\ UNCHANGED <<devMem, address, format, amount, retrieved, rwOutcome,
                 rwCaller, rwArrived, rwBeat, gwVars>>

\* if retries <= 0: raise SerialCommunicationError
RWRaise ==
  /\ UNCHANGED notRW
  /\ rwPc = "loop"
  /\ retrieved # amount
  /\ retries <= 0
  /\ rwPc' = "done"
  /\ rwOutcome' = "raised"
  /\ gwPc' = IF rwCaller = "GetWaypoints" THEN "done" ELSE gwPc
  /\ gwOutcome' = IF rwCaller = "GetWaypoints" THEN "raised" ELSE gwOutcome
  /\ UNCHANGED <<devMem, devPending, address, format, amount, retries,
                 retrieved, noise, wps, rwCaller, rwSends,
                 rwArrived, rwBeat, rwOther, gwTrack, number,
                 gwLeft, gwAddress, packages, gwI, waypoints, progress, pages>>

\* A test that raises at the limit already.
TooNoisyAtLimit(n) == noise + n >= NoiseLimit

\* if noise > 100: raise SerialCommunicationError('too much noise'), met by
\* the next line when n lines before it have each added 1 to noise.
TooNoisyAfter(n) == noise + n > NoiseLimit
TooNoisy == TooNoisyAfter(0)

\* The lines of a run of n lines (each adding 1 to noise) that are counted
\* before one of them meets noise > 100.
CountedBeforeRaise(n) ==
  CHOOSE j \in 0..n :
    TooNoisyAfter(j) /\ \A k \in 0..(j - 1) : ~TooNoisyAfter(k)

\* The raise, met by a line that has up to n lines before it.
RWTooMuchNoise(n) ==
  /\ rwPc' = "done"
  /\ rwOutcome' = "noise"
  /\ noise' = noise + CountedBeforeRaise(n)
  /\ rwOther' = rwOther + CountedBeforeRaise(n)
  /\ rwBeat' = FALSE
  /\ gwPc' = IF rwCaller = "GetWaypoints" THEN "done" ELSE gwPc
  /\ gwOutcome' = IF rwCaller = "GetWaypoints" THEN "raised" ELSE gwOutcome
  /\ UNCHANGED <<devMem, devPending, address, format, amount, retries,
                 retrieved, wps, rwCaller, rwSends, rwArrived,
                 gwTrack, number, gwLeft, gwAddress, packages, gwI,
                 waypoints, progress, pages>>

\* The inner loop goes on while retrieved != amount; then the outer loop's
\* test is next.
AfterLine(n) == IF n = amount THEN "loop" ELSE "recv"

\* RecvMessage returns a LOG102 line with the next k records of the answer.
RWRecords(k) ==
  /\ UNCHANGED notRW
  /\ rwPc = "recv"
  /\ k <= Len(devPending)
  /\ IF TooNoisy
     THEN RWTooMuchNoise(0)
     ELSE LET recs == SubSeq(devPending, 1, k)
          IN  /\ wps' = wps \o Decoded(recs)
              /\ retrieved' = retrieved + Counted(recs)
              /\ rwArrived' = IF rwSends = 1 THEN rwArrived + k ELSE rwArrived
              /\ devPending' = SubSeq(devPending, k + 1, Len(devPending))
              /\ rwPc' = AfterLine(retrieved + k)
              /\ rwBeat' = FALSE
              /\ UNCHANGED <<devMem, address, format, amount, retries,
                             noise, rwOutcome, rwCaller, rwSends, rwOther,
                             gwVars>>

\* A LOG102 line of k records is lost on the way: RecvMessage never returns it.
RWLost(k) ==
  /\ UNCHANGED notRW
  /\ rwPc = "recv"
  /\ k <= Len(devPending)
  /\ devPending' = SubSeq(devPending, k + 1, Len(devPending))
  /\ UNCHANGED <<devMem, address, format, amount, retries, retrieved,
                 noise, wps, rwPc, rwOutcome, rwCaller, rwSends, rwArrived,
                 rwBeat, rwOther, gwVars>>

\* RecvMessage returns NoiseBurst lines in a row that are no LOG102 lines
\* ("other"), a LOG102 line too short for its header ("header"), or one whose
\* payload is no whole number of records ("length"): noise += 1 for each
\* line, noise += 20, or the line is ignored.
NoiseKinds == {"other", "header", "length"}
NoiseLines(kind) == IF kind = "other" THEN NoiseBurst ELSE 1
NoiseAfter(kind) == CASE kind = "other" -> noise + NoiseBurst
                      [] kind = "header" -> noise + HeaderPenalty
                      [] kind = "length" -> noise

RWNoise(kind) ==
  /\ UNCHANGED notRW
  /\ rwPc = "recv"
  /\ IF TooNoisyAfter(NoiseLines(kind) - 1)
     THEN RWTooMuchNoise(NoiseLines(kind) - 1)
     ELSE /\ noise' = NoiseAfter(kind)
          /\ rwOther' = IF kind = "other" THEN rwOther + NoiseBurst
                        ELSE rwOther
          /\ rwBeat' = IF kind = "length" THEN ~rwBeat ELSE FALSE
          /\ UNCHANGED <<devMem, devPending, address, format, amount,
                         retries, retrieved, wps, rwPc, rwOutcome, rwCaller,
                         rwSends, rwArrived, gwVars>>

\* RecvMessage times out (returns b''): break, back to the outer loop.
RWTimeout ==
  /\ UNCHANGED notRW
  /\ rwPc = "recv"
  /\ rwPc' = "loop"
  /\ rwBeat' = FALSE
  /\ UNCHANGED <<devMem, devPending, address, format, amount, retries,
                 retrieved, noise, wps, rwOutcome, rwCaller, rwSends,
                 rwArrived, rwOther, gwVars>>

(***************************************************************************)
(* GetWaypoints(number): the track's pages, one _RetrieveWaypoints each.   *)
(***************************************************************************)
\* waypoints_per_request = bytes_per_request / waypoint_len
WaypointsPerRequest(fmt) == TrueDiv(PyInt(BytesPerRequest), PyInt(RawLen(fmt)))

\* packages, rest = divmod(number, waypoints_per_request); if rest: packages += 1
Packages(n, fmt) ==
  LET dm == DivMod(PyInt(n), WaypointsPerRequest(fmt))
  IN  IF dm[2].v # 0 THEN PyAdd(dm[1], PyInt(1)) ELSE dm[1]

\* len(waypoints) * 100 / number, a quotient
Percent(len, n) == [t |-> "float", num |-> len * 100, den |-> n]

\* The first statements of a page: n = min(waypoints_per_request, _number);
\* _RetrieveWaypoints(address, format, n)
GWRequestPage(addr, fmt, left) ==
  LET n == PyMin(WaypointsPerRequest(fmt), left)
  IN  /\ RWEnter(addr.v, fmt, n.v, "GetWaypoints")
      /\ pages' = Append(pages, <<addr.v, n.v>>)

\* The device's track table, as PROY101,<i> reports it: <<format, count,
\* first record>> of track i, a track of every format and length.
Tracks == {t \in Formats \X (0..MemSize) \X {0} : TRUE}

\* GetWaypoints up to the for loop, for the track GetTrackInfo reports; ok:
\* GetTrackInfo's SendRecv returns the LOG101 line of the track.
GWStart(devTrack, ok) ==
  /\ UNCHANGED notRW
  /\ rwPc = "idle" /\ gwPc = "idle"
  /\ UNCHANGED devMem
  /\ IF ~ok
     THEN /\ gwPc' = "done"
          /\ gwOutcome' = "raised"
          /\ UNCHANGED <<devPending, address, format, amount, retries, retrieved,
                         noise, wps, rwPc, rwOutcome, rwCaller, rwSends,
                         rwArrived, rwBeat, rwOther,
                         gwTrack, number, gwLeft, gwAddress, packages, gwI, waypoints,
                         progress, pages>>
     ELSE LET fmt == devTrack[1]
              n == devTrack[2]
              addr == PyInt(devTrack[3] * RawLen(fmt))
              pk == Packages(n, fmt)
          IN  /\ gwTrack' = devTrack
              /\ number' = n
              /\ gwLeft' = PyInt(n)
              /\ gwAddress' = addr
              /\ packages' = pk
              /\ gwI' = 0
              /\ waypoints' = <<>>
              /\ IF ~RangeOk(pk)
                 THEN /\ gwPc' = "done"
                      /\ gwOutcome' = "TypeError"
                      /\ progress' = <<PyInt(0)>>
                      /\ UNCHANGED <<devPending, address, format, amount, retries,
                                     retrieved, noise, wps, rwPc, rwOutcome,
                                     rwCaller, rwSends,
                                     rwArrived, rwBeat, rwOther, pages>>
                 ELSE IF pk.v = 0
                 THEN /\ gwPc' = "done"
                      /\ gwOutcome' = "returned"
                      /\ progress' = <<PyInt(0), "None">>
                      /\ UNCHANGED <<devPending, address, format, amount, retries,
                                     retrieved, noise, wps, rwPc, rwOutcome,
                                     rwCaller, rwSends,
                                     rwArrived, rwBeat, rwOther, pages>>
                 ELSE /\ gwPc' = "page"
                      /\ gwOutcome' = "none"
                      /\ progress' = <<PyInt(0)>>
                      /\ GWRequestPage(addr, fmt, PyInt(n))

\* The rest of a page, once _RetrieveWaypoints has returned wps, and the next
\* page's request or, after the last page, GetWaypoints' return.
GWAfterPage ==
  LET n == PyInt(amount)
      left == [t |-> gwLeft.t, v |-> gwLeft.v - n.v]
      addr == PyAdd(gwAddress, PyInt(n.v * RawLen(format)))
      all == waypoints \o wps
  IN  /\ gwLeft' = left
      /\ gwAddress' = addr
      /\ waypoints' = all
      /\ gwI' = gwI + 1
      /\ UNCHANGED <<devMem, gwTrack, number, packages>>
      /\ IF gwI + 1 < packages.v
         THEN /\ gwPc' = "page"
              /\ gwOutcome' = gwOutcome
              /\ progress' = Append(progress, Percent(Len(all), number))
              /\ GWRequestPage(addr, format, left)
         ELSE /\ gwPc' = "done"
              /\ gwOutcome' = "returned"
              /\ progress' = progress \o <<Percent(Len(all), number), "None">>
              /\ rwPc' = "done"
              /\ rwOutcome' = "returned"
              /\ UNCHANGED <<devPending, address, format, amount, retries,
                             retrieved, noise, wps, rwCaller, rwSends,
                             rwArrived, rwBeat, rwOther,
                             pages>>

\* retrieved == amount: both loops end, return wps.
RWReturn ==
  /\ UNCHANGED notRW
  /\ rwPc = "loop"
  /\ retrieved = amount
  /\ IF rwCaller = "GetWaypoints"
     THEN GWAfterPage
     ELSE /\ rwPc' = "done"
          /\ rwOutcome' = "returned"
          /\ UNCHANGED <<devMem, devPending, address, format, amount,
                         retries, retrieved, noise, wps, rwCaller, rwSends,
                         rwArrived, rwBeat, rwOther, gwVars>>

RWNext ==
  \/ \E first \in 0..(MemSize - 1), fmt \in CallFormats, amt \in 1..MemSize :
       RWCall(first, fmt, amt)
  \/ \E track \in Tracks, ok \in BOOLEAN : GWStart(track, ok)
  \/ RWSend
  \/ \E k \in 1..MaxPerLine : RWRecords(k)
  \/ \E k \in 1..MaxPerLine : RWLost(k)
  \/ \E kind \in NoiseKinds : RWNoise(kind)
  \/ RWTimeout
  \/ RWReturn
  \/ RWRaise

(***************************************************************************)
(* The framer: NMEACalcChecksum, NMEABuildLine and RecvMessage.  Bytes are *)
(* their values, 0..255.                                                   *)
(***************************************************************************)
\* The bytes the framer tells apart.
DOLLAR == 36
STAR == 42
CR == 13
LF == 10

\* a ^ b on byte values
RECURSIVE Xor(_, _)
Xor(a, b) ==
  IF a = 0 THEN b
  ELSE IF b = 0 THEN a
  ELSE 2 * Xor(a \div 2, b \div 2) + ((a + b) % 2)

\* chksum = 0; for c in msg: chksum ^= c
RECURSIVE XorAll(_)
XorAll(bytes) ==
  IF bytes = <<>> THEN 0 ELSE Xor(Head(bytes), XorAll(Tail(bytes)))

\* One digit of '%02X': 0..9 as '0'..'9', 10..15 as 'A'..'F'.
HexDigit(d) == IF d < 10 THEN 48 + d ELSE 55 + d

\* NMEACalcChecksum(msg): b'%02X' % chksum
NMEACalcChecksum(bytes) ==
  LET chksum == XorAll(bytes)
  IN  <<HexDigit(chksum \div 16), HexDigit(chksum % 16)>>

\* NMEABuildLine(msg): b'$%s*%s\r\n' % (msg, NMEACalcChecksum(msg))
NMEABuildLine(bytes) ==
  <<DOLLAR>> \o bytes \o <<STAR>> \o NMEACalcChecksum(bytes) \o <<CR, LF>>

\* The whole alphabet, 'A'..'Z'.
UpperAtoZ == 65..90

\* UPPERALPHA = b"ABCDEFGHIJKLMNOPQRSTUVWYZ": 'A'..'W', 'Y', 'Z'
UPPERALPHA == (65..87) \cup {89, 90}

\* HEX = b"0123456789ABCDEF"
HEX == (48..57) \cup (65..70)

\* The if / elif chain on the state at the top of the loop body (lines
\* 498-569): the next state, and whether the body goes on to the tests
\* below the chain ("fall"), continues with the next byte ("continue"), or
\* has a whole line ("complete").
Chain(st, c) ==
  CASE st = "start" ->
         IF c = DOLLAR THEN [st |-> "start1", go |-> "continue"]
         ELSE [st |-> "skipnl", go |-> "fall"]
    [] st = "start1" ->
         IF c \in UPPERALPHA THEN [st |-> "start2", go |-> "continue"]
         ELSE [st |-> "skipnl", go |-> "fall"]
    [] st = "start2" ->
         IF c \in UPPERALPHA THEN [st |-> "start3", go |-> "continue"]
         ELSE [st |-> "skipnl", go |-> "fall"]
    [] st = "start3" ->
         IF c \in UPPERALPHA THEN [st |-> "line", go |-> "continue"]
         ELSE [st |-> "skipnl", go |-> "fall"]
    [] st = "chksum" ->
         IF c \in HEX THEN [st |-> "chksum1", go |-> "continue"]
         ELSE [st |-> "line", go |-> "fall"]
    [] st = "chksum1" ->
         IF c \in HEX THEN [st |-> "eol", go |-> "continue"]
         ELSE [st |-> "line", go |-> "fall"]
    [] st = "eol" ->
         IF c = CR THEN [st |-> "eol1", go |-> "continue"]
         ELSE [st |-> "line", go |-> "fall"]
    [] st = "eol1" ->
         IF c = LF THEN [st |-> "eol1", go |-> "complete"]
         ELSE [st |-> "line", go |-> "fall"]
    [] OTHER -> [st |-> st, go |-> "fall"]

\* The tests below the chain (lines 571-586): the next state, and whether msg
\* is emptied.
Below(st, c) ==
  CASE st = "line" ->
         [st |-> IF c = STAR THEN "chksum" ELSE "line", clear |-> FALSE]
    [] st = "skipnl" ->
         [st |-> IF c = CR THEN "skipnl1" ELSE "skipnl", clear |-> FALSE]
    [] st = "skipnl1" ->
         IF c = LF THEN [st |-> "start", clear |-> TRUE]
         ELSE [st |-> "skipnl", clear |-> FALSE]
    [] OTHER -> [st |-> st, clear |-> FALSE]

\* A whole line m = $...*HH\r\n: msg = msg[1:-2]; chksum = msg[-2:];
\* msg = msg[:-3]
LinePayload(m) == SubSeq(m, 2, Len(m) - 5)
LineChecksum(m) == SubSeq(m, Len(m) - 3, Len(m) - 2)
\* A comparison that takes any checksum field.
ChecksumAny(m) == TRUE

\* if chksum == shouldbe
ChecksumOk(m) == LineChecksum(m) = NMEACalcChecksum(LinePayload(m))

\* The payloads and lines of the model's streams: a three-character tag of
\* uppercase letters ('A', 'X') or not ('a'), and up to MaxTail more bytes.
TagChars == {65, 88, 97}
TailChars == {44, 49, STAR}
Tags == {<<a, b, c>> : a \in TagChars, b \in TagChars, c \in TagChars}
RECURSIVE Tails(_)
Tails(n) ==
  IF n = 0 THEN {<<>>}
  ELSE Tails(n - 1) \cup {Append(t, c) : t \in Tails(n - 1), c \in TailChars}
Payloads == {tag \o tail : tag \in Tags, tail \in Tails(MaxTail)}

\* The checksum fields tried with a payload: the right one, and two others.
ChecksumsFor(p) == {NMEACalcChecksum(p), <<48, 48>>, <<55, 70>>}

\* The line $<payload>*HH\r\n
Framed(p, hh) == <<DOLLAR>> \o p \o <<STAR>> \o hh \o <<CR, LF>>

\* What follows the first line: nothing (an empty payload), or bytes that
\* are no line start (lead) and then the valid line of a payload.
FollowerLines ==
  { [lead |-> <<>>, payload |-> <<>>],
    [lead |-> <<>>, payload |-> <<65, 65, 65>>],
    [lead |-> <<>>, payload |-> <<88, 65, 65>>],
    [lead |-> <<97>>, payload |-> <<65, 65, 65>>] }
FollowerBytes(f) ==
  IF f.payload = <<>> THEN <<>> ELSE f.lead \o NMEABuildLine(f.payload)
Followers == {FollowerBytes(f) : f \in FollowerLines}

FRInit ==
  /\ \E p \in Payloads, f \in FollowerLines :
       \E hh \in ChecksumsFor(p) :
         /\ frIn = [payload |-> p, hh |-> hh, next |-> FollowerBytes(f),
                    lead |-> f.lead, follower |-> f.payload]
         /\ stream = Framed(p, hh) \o FollowerBytes(f)
  /\ state = "start"
  /\ msg = <<>>
  /\ frPc = "run"
  /\ frRet = "none"
  /\ frDropped = 0

\* The framer before any call: the state of the layers that do not run it.
FRIdle ==
  /\ frIn = <<>>
  /\ stream = <<>>
  /\ state = "start"
  /\ msg = <<>>
  /\ frPc = "idle"
  /\ frRet = "none"
  /\ frDropped = 0

\* One pass of the loop: conn.read(1) delivers the next byte of the stream.
FRByte ==
  /\ UNCHANGED notFR
  /\ frPc = "run"
  /\ stream # <<>>
  /\ LET c == Head(stream)
         m == Append(msg, c)
         first == Chain(state, c)
         below == Below(first.st, c)
         dropped == first.go = "complete" /\ m[1] = DOLLAR /\ ~ChecksumOk(m)
     IN  /\ stream' = Tail(stream)
         /\ frDropped' = IF dropped THEN frDropped + 1 ELSE frDropped
         /\ IF first.go = "continue"
            THEN /\ state' = first.st
                 /\ msg' = m
                 /\ UNCHANGED <<frPc, frRet>>
            ELSE IF first.go = "complete"
            THEN IF m[1] # DOLLAR
                 THEN /\ frPc' = "done"
                      /\ frRet' = "AssertionError"
                      /\ state' = first.st
                      /\ msg' = m
                 ELSE IF ChecksumOk(m)
                 THEN /\ frPc' = "done"
                      /\ frRet' = LinePayload(m)
                      /\ state' = first.st
                      /\ msg' = LinePayload(m)
                 ELSE /\ state' = "start"
                      /\ msg' = <<>>
                      /\ UNCHANGED <<frPc, frRet>>
            ELSE /\ state' = below.st
                 /\ msg' = IF below.clear THEN <<>> ELSE m
                 /\ UNCHANGED <<frPc, frRet>>
  /\ UNCHANGED frIn

\* conn.read(1) returns b'' (its deadline passed): return b''.
FRTimeout ==
  /\ UNCHANGED notFR
  /\ frPc = "run"
  /\ frPc' = "done"
  /\ frRet' = <<>>
  /\ UNCHANGED <<stream, state, msg, frIn, frDropped>>

FRNext ==
  \/ FRByte
  \/ FRTimeout

(***************************************************************************)
(* The transport: TermiosSerial.  Two threads share its fields: the        *)
(* foreground thread, which calls read, write and close one after another, *)
(* and the receiver thread started by __init__.  One action is one step of *)
(* one thread between two accesses to what they share.                     *)
(***************************************************************************)
\* os.open's result: the lowest free descriptor of a process with stdio open.
Fd == 3
\* self._fd = None
FdNone == -1

\* The bytes held by a queue of chunks.
RECURSIVE Flat(_)
Flat(chunks) ==
  IF chunks = <<>> THEN <<>> ELSE Head(chunks) \o Flat(Tail(chunks))

\* What read can still get without the receiver: buffer2, then the queue.
Buffered == buffer2 \o Flat(buffer)

NoCall ==
  [op |-> "none", n |-> 0, lost |-> FALSE, dead |-> FALSE, buffered |-> 0,
   first |-> 0, before |-> 0, by |-> 0, written |-> 0, handed |-> 0]

\* The state __init__ leaves: descriptor open, receiver thread started.
TSInit ==
  /\ receiver_running = TRUE
  /\ fd = Fd
  /\ buffer = <<>>
  /\ buffer2 = <<>>
  /\ rtPc = "loop"
  /\ rtExc = "none"
  /\ fgPc = "idle"
  /\ fgOutcome = "none"
  /\ length = 0
  /\ data = <<>>
  /\ now = 0
  /\ kernel = <<>>
  /\ sent = 0
  /\ osOpen = TRUE
  /\ closeCalls = 0
  /\ useAfter = FALSE
  /\ written = 0
  /\ closed = FALSE
  /\ calls = 0
  /\ call = NoCall

\* No transport: the state of the layers that run without one.
TSIdle ==
  /\ receiver_running = FALSE
  /\ fd = FdNone
  /\ buffer = <<>>
  /\ buffer2 = <<>>
  /\ rtPc = "none"
  /\ rtExc = "none"
  /\ fgPc = "none"
  /\ fgOutcome = "none"
  /\ length = 0
  /\ data = <<>>
  /\ now = 0
  /\ kernel = <<>>
  /\ sent = 0
  /\ osOpen = FALSE
  /\ closeCalls = 0
  /\ useAfter = FALSE
  /\ written = 0
  /\ closed = FALSE
  /\ calls = 0
  /\ call = NoCall

\* The device sends one more byte; the kernel holds it for os.read.
DeviceSends ==
  /\ UNCHANGED notTS
  /\ rtPc # "none"
  /\ osOpen
  /\ sent < MaxBytes
  /\ sent' = sent + 1
  /\ kernel' = Append(kernel, sent + 1)
  /\ UNCHANGED <<receiver_running, fd, buffer, buffer2, rtPc, rtExc, fgPc,
                 fgOutcome, length, data, now, osOpen, closeCalls, useAfter,
                 written, closed, calls, call>>

\* ---- _Close (lines 136-144), one step per use of self._fd.
CloseSteps == {"c_if", "c_flush", "c_os", "c_clear"}

\* The step of _Close at position pc: the next position ("exit" once _Close
\* is left), the exception it is left with, and the fields after the step.
CloseResult(pc) ==
  LET same == [pc |-> "exit", exc |-> "none", fd |-> fd, osOpen |-> osOpen,
               closeCalls |-> closeCalls, kernel |-> kernel]
  IN  CASE pc = "c_if" ->
             \* if self._fd:
             IF fd # FdNone /\ fd # 0
             THEN [same EXCEPT !.pc = "c_flush"] ELSE same
        [] pc = "c_flush" ->
             \* termios.tcflush(self._fd, TCIOFLUSH); termios.error is caught
             IF fd = FdNone THEN [same EXCEPT !.exc = "TypeError"]
             ELSE IF osOpen THEN [same EXCEPT !.pc = "c_os", !.kernel = <<>>]
             ELSE [same EXCEPT !.pc = "c_os"]
        [] pc = "c_os" ->
             \* os.close(self._fd)
             IF fd = FdNone THEN [same EXCEPT !.exc = "TypeError"]
             ELSE IF osOpen
             THEN [same EXCEPT !.pc = "c_clear", !.osOpen = FALSE,
                               !.closeCalls = closeCalls + 1]
             ELSE [same EXCEPT !.exc = "OSError",
                               !.closeCalls = closeCalls + 1]
        [] OTHER ->
             \* self._fd = None
             [same EXCEPT !.fd = FdNone]

\* ---- __ReceiverThread (lines 146-166)
\* while self.__receiver_running: time.sleep(0.001)
RTLoop ==
  /\ UNCHANGED notTS
  /\ rtPc = "loop"
  /\ rtPc' = IF receiver_running THEN "read" ELSE "finally"
  /\ UNCHANGED <<receiver_running, fd, buffer, buffer2, rtExc, fgPc,
                 fgOutcome, length, data, now, kernel, sent, osOpen,
                 closeCalls, useAfter, written, closed, calls, call>>

\* data = os.read(self._fd, 2048); self.__buffer.put(data), or EAGAIN when
\* the kernel holds nothing.  A released descriptor makes os.read fail.
RTRead ==
  /\ UNCHANGED notTS
  /\ rtPc = "read"
  /\ IF fd = FdNone \/ ~osOpen
     THEN /\ useAfter' = TRUE
          /\ rtPc' = "finally"
          /\ rtExc' = IF fd = FdNone THEN "TypeError"
                      ELSE "SerialConnectionLost"
          /\ UNCHANGED <<buffer, kernel, call>>
     ELSE /\ rtPc' = "loop"
          /\ UNCHANGED <<useAfter, rtExc>>
          /\ IF kernel = <<>>
             THEN UNCHANGED <<buffer, kernel, call>>
             ELSE /\ buffer' = Append(buffer, kernel)
                  /\ kernel' = <<>>
                  /\ call' =
                       IF fgPc # "r_loop" THEN call
                       ELSE [call EXCEPT
                               !.before = @ + (IF now < Deadline
                                               THEN Len(kernel) ELSE 0),
                               !.by = @ + (IF now <= Deadline
                                           THEN Len(kernel) ELSE 0)]
  /\ UNCHANGED <<receiver_running, fd, buffer2, fgPc, fgOutcome, length,
                 data, now, sent, osOpen, closeCalls, written, closed, calls>>

\* os.read fails with an OSError other than EAGAIN (the device is gone):
\* raise SerialConnectionLost.
RTReadError ==
  /\ UNCHANGED notTS
  /\ rtPc = "read"
  /\ fd # FdNone /\ osOpen
  /\ rtPc' = "finally"
  /\ rtExc' = "SerialConnectionLost"
  /\ UNCHANGED <<receiver_running, fd, buffer, buffer2, fgPc, fgOutcome,
                 length, data, now, kernel, sent, osOpen, closeCalls,
                 useAfter, written, closed, calls, call>>

\* finally: self.__receiver_running = False
RTFinally ==
  /\ UNCHANGED notTS
  /\ rtPc = "finally"
  /\ receiver_running' = FALSE
  /\ rtPc' = "c_if"
  /\ UNCHANGED <<fd, buffer, buffer2, rtExc, fgPc, fgOutcome, length, data,
                 now, kernel, sent, osOpen, closeCalls, useAfter, written,
                 closed, calls, call>>

\* finally: self._Close(), step by step; then the thread is over.
RTClose ==
  /\ UNCHANGED notTS
  /\ rtPc \in CloseSteps
  /\ LET r == CloseResult(rtPc)
     IN  /\ rtPc' = IF r.pc = "exit" THEN "dead" ELSE r.pc
         /\ rtExc' = IF r.exc # "none" THEN r.exc ELSE rtExc
         /\ fd' = r.fd
         /\ osOpen' = r.osOpen
         /\ closeCalls' = r.closeCalls
         /\ kernel' = r.kernel
  /\ UNCHANGED <<receiver_running, buffer, buffer2, fgPc, fgOutcome, length,
                 data, now, sent, useAfter, written, closed, calls, call>>

\* ---- the foreground thread
\* The reader is over, or a close() has returned.
Lost == closed \/ rtPc = "dead"

\* The first byte a read beginning now can get.
FirstPending ==
  IF Buffered # <<>> THEN Head(Buffered) ELSE sent - Len(kernel) + 1

Begin(op, n) ==
  /\ fgPc = "idle"
  /\ calls < MaxCalls
  /\ calls' = calls + 1
  /\ call' = [op |-> op, n |-> n, lost |-> Lost, dead |-> rtPc = "dead",
              buffered |-> Len(Buffered), first |-> FirstPending,
              before |-> Len(Buffered), by |-> Len(Buffered),
              written |-> written,
              handed |-> call.handed + (IF call.op = "read" THEN Len(data)
                                        ELSE 0)]

\* write refuses once a close() has returned, whatever the receiver does.
WriteRefusedWhenClosed == closed

\* if not self.__receiver_running: raise SerialConnectionLost
WriteRefused == ~receiver_running

\* write (lines 168-176) up to its os.write.
Write ==
  /\ UNCHANGED notTS
  /\ Begin("write", 0)
  /\ IF WriteRefused
     THEN fgPc' = "idle" /\ fgOutcome' = "SerialConnectionLost"
     ELSE fgPc' = "w_os" /\ fgOutcome' = "none"
  /\ UNCHANGED <<receiver_running, fd, buffer, buffer2, rtPc, rtExc, length,
                 data, now, kernel, sent, osOpen, closeCalls, useAfter,
                 written, closed>>

\* os.write(self._fd, data)
WriteOs ==
  /\ UNCHANGED notTS
  /\ fgPc = "w_os"
  /\ fgPc' = "idle"
  /\ IF fd = FdNone
     THEN fgOutcome' = "TypeError" /\ useAfter' = TRUE /\ UNCHANGED written
     ELSE IF ~osOpen
     THEN fgOutcome' = "OSError" /\ useAfter' = TRUE /\ UNCHANGED written
     ELSE fgOutcome' = "returned" /\ written' = written + 1
          /\ UNCHANGED useAfter
  /\ UNCHANGED <<receiver_running, fd, buffer, buffer2, rtPc, rtExc, length,
                 data, now, kernel, sent, osOpen, closeCalls, closed, calls,
                 call>>

\* close (lines 127-134) up to the join: if self.__receiver_running:
\* self.__receiver_running = False
Close ==
  /\ UNCHANGED notTS
  /\ Begin("close", 0)
  /\ fgOutcome' = "none"
  /\ IF receiver_running
     THEN receiver_running' = FALSE /\ fgPc' = "join"
     ELSE fgPc' = "c_if" /\ UNCHANGED receiver_running
  /\ UNCHANGED <<fd, buffer, buffer2, rtPc, rtExc, length, data, now, kernel,
                 sent, osOpen, closeCalls, useAfter, written, closed>>

\* self.__receiver.join() returns once the receiver thread is over.
CloseJoin ==
  /\ UNCHANGED notTS
  /\ fgPc = "join"
  /\ rtPc = "dead"
  /\ fgPc' = "c_if"
  /\ UNCHANGED <<receiver_running, fd, buffer, buffer2, rtPc, rtExc,
                 fgOutcome, length, data, now, kernel, sent, osOpen,
                 closeCalls, useAfter, written, closed, calls, call>>

\* self._Close() in close, step by step; then close returns or raises.
CloseClose ==
  /\ UNCHANGED notTS
  /\ fgPc \in CloseSteps
  /\ LET r == CloseResult(fgPc)
     IN  /\ fgPc' = IF r.pc = "exit" THEN "idle" ELSE r.pc
         /\ fgOutcome' = IF r.pc # "exit" THEN "none"
                         ELSE IF r.exc # "none" THEN r.exc ELSE "returned"
         /\ closed' = (closed \/ (r.pc = "exit" /\ r.exc = "none"))
         /\ fd' = r.fd
         /\ osOpen' = r.osOpen
         /\ closeCalls' = r.closeCalls
         /\ kernel' = r.kernel
  /\ UNCHANGED <<receiver_running, buffer, buffer2, rtPc, rtExc, length,
                 data, now, sent, useAfter, written, calls, call>>

\* read(length) (lines 178-197) up to its loop.
Read(n) ==
  /\ UNCHANGED notTS
  /\ Begin("read", n)
  /\ fgPc' = "r_loop"
  /\ fgOutcome' = "none"
  /\ length' = n
  /\ data' = <<>>
  /\ now' = 0
  /\ UNCHANGED <<receiver_running, fd, buffer, buffer2, rtPc, rtExc, kernel,
                 sent, osOpen, closeCalls, useAfter, written, closed>>

\* read gives up whenever it is short, whether the receiver runs or not.
BailOutWhenShort(left) == left > 0

\* if length and not self.__receiver_running: raise SerialConnectionLost
BailOut(left) == left > 0 /\ ~receiver_running

\* One pass of read's loop (lines 198-228), and the return when it ends.
ReadLoop ==
  /\ UNCHANGED notTS
  /\ fgPc = "r_loop"
  /\ IF now > Deadline
     THEN \* time.time() > endtime: break
          /\ fgPc' = "idle" /\ fgOutcome' = "returned"
          /\ UNCHANGED <<buffer, buffer2, length, data, now>>
     ELSE IF buffer2 = <<>> /\ buffer = <<>>
     THEN \* queue.Empty: time.sleep(0.001); continue
          /\ now' = now + 1
          /\ UNCHANGED <<buffer, buffer2, length, data, fgPc, fgOutcome>>
     ELSE LET b2 == IF buffer2 # <<>> THEN buffer2 ELSE Head(buffer)
              q == IF buffer2 # <<>> THEN buffer ELSE Tail(buffer)
          IN  /\ buffer' = q
              /\ UNCHANGED now
              /\ IF Len(b2) <= length
                 THEN /\ buffer2' = <<>>
                      /\ length' = length - Len(b2)
                      /\ IF BailOut(length - Len(b2))
                         THEN /\ fgPc' = "idle"
                              /\ fgOutcome' = "SerialConnectionLost"
                              /\ data' = <<>>
                         ELSE /\ data' = data \o b2
                              /\ IF length - Len(b2) = 0
                                 THEN fgPc' = "idle"
                                      /\ fgOutcome' = "returned"
                                 ELSE UNCHANGED <<fgPc, fgOutcome>>
                 ELSE /\ data' = data \o SubSeq(b2, 1, length)
                      /\ buffer2' = SubSeq(b2, length + 1, Len(b2))
                      /\ fgPc' = "idle" /\ fgOutcome' = "returned"
                      /\ UNCHANGED length
  /\ UNCHANGED <<receiver_running, fd, rtPc, rtExc, kernel, sent, osOpen,
                 closeCalls, useAfter, written, closed, calls, call>>

TSNext ==
  \/ DeviceSends
  \/ RTLoop
  \/ RTRead
  \/ RTReadError
  \/ RTFinally
  \/ RTClose
  \/ Write
  \/ WriteOs
  \/ Close
  \/ CloseJoin
  \/ CloseClose
  \/ \E n \in 1..MaxRead : Read(n)
  \/ ReadLoop

(***************************************************************************)
(* GetTimestamp and Erase.  Each call is one action; its SendRecv of one   *)
(* line returns the first line received or raises.  A line is the sequence *)
(* of its comma-separated fields; a field of digits is their sequence.     *)
(***************************************************************************)
\* The device's clock when it has a satellite lock.
Clocks ==
  [year : {2007, 2008}, month : {1, 12}, day : {5, 26},
   hour : {0, 23}, min : {0, 59}, sec : {0, 21}]
NoLock == [year |-> 0, month |-> 0, day |-> 0, hour |-> 0, min |-> 0, sec |-> 0]

\* The decimal digits of n, w of them (the device's side of LOG003).
RECURSIVE Digits(_, _)
Digits(n, w) ==
  IF w = 0 THEN <<>> ELSE Append(Digits(n \div 10, w - 1), n % 10)

\* int(b'...') of a field of digits
RECURSIVE IntOf(_)
IntOf(ds) ==
  IF ds = <<>> THEN 0
  ELSE 10 * IntOf(SubSeq(ds, 1, Len(ds) - 1)) + ds[Len(ds)]

\* LOG003,<date>,<time> as the device sends it, e.g. LOG003,20071226,101221
LOG003(c) ==
  << "LOG003",
     Digits(c.year, 4) \o Digits(c.month, 2) \o Digits(c.day, 2),
     Digits(c.hour, 2) \o Digits(c.min, 2) \o Digits(c.sec, 2) >>

\* What the firmware answers to PROY003 without a lock.
LOG002 == <<"LOG002", <<0>>>>

\* A line that is no answer to the request.
OtherLine == <<"PSRFTXT">>

\* The first line SendRecv('PROY003', lines=1) can return; <<>>: it raises.
Replies003 ==
  {IF devClock = NoLock THEN LOG002 ELSE LOG003(devClock), OtherLine, <<>>}

\* Every line that can be such a reply, whatever the device's clock.
Lines003 == {LOG002, OtherLine, <<>>} \cup {LOG003(c) : c \in Clocks}

\* ParseDateTime(datestr, timestr) (lines 233-254)
ParseDateTime(datestr, timestr) ==
  IF Len(datestr) # 8 THEN [kind |-> "AssertionError"]
  ELSE IF Truthy(timestr)
  THEN IF Len(timestr) # 6 THEN [kind |-> "AssertionError"]
       ELSE [kind |-> "datetime",
             year |-> IntOf(SubSeq(datestr, 1, 4)),
             month |-> IntOf(SubSeq(datestr, 5, 6)),
             day |-> IntOf(SubSeq(datestr, 7, 8)),
             hour |-> IntOf(SubSeq(timestr, 1, 2)),
             min |-> IntOf(SubSeq(timestr, 3, 4)),
             sec |-> IntOf(SubSeq(timestr, 5, 6))]
  ELSE [kind |-> "date",
        year |-> IntOf(SubSeq(datestr, 1, 4)),
        month |-> IntOf(SubSeq(datestr, 5, 6)),
        day |-> IntOf(SubSeq(datestr, 7, 8))]

\* A test that takes every line for a timestamp.
HasTimestampAnyLine(line) == TRUE

\* data[0].startswith(b'LOG003,')
HasTimestamp(line) == Len(line) >= 2 /\ line[1] = "LOG003"

CMInit ==
  /\ devClock \in Clocks \cup {NoLock}
  /\ cmOp = "none"
  /\ cmReply = <<>>
  /\ cmRet = [kind |-> "none"]
  /\ cmSent = <<>>
  /\ cmWaited = FALSE

\* No call of this layer: the state of the layers that do not run it.
CMIdle ==
  /\ devClock = NoLock
  /\ cmOp = "idle"
  /\ cmReply = <<>>
  /\ cmRet = [kind |-> "none"]
  /\ cmSent = <<>>
  /\ cmWaited = FALSE

\* GetTimestamp (lines 644-654); reply: what its SendRecv meets.
GetTimestamp(reply) ==
  /\ UNCHANGED notCM
  /\ cmOp # "idle"
  /\ reply \in Replies003
  /\ cmOp' = "GetTimestamp"
  /\ cmSent' = <<"PROY003">>
  /\ cmReply' = reply
  /\ cmRet' =
       IF reply = <<>> THEN [kind |-> "SerialCommunicationError"]
       ELSE IF ~HasTimestamp(reply) THEN [kind |-> "None"]
       ELSE IF Len(reply) < 3 THEN [kind |-> "IndexError"]
       ELSE ParseDateTime(Item(reply, 1), Item(reply, 2))
  /\ UNCHANGED <<devClock, cmWaited>>

\* The acknowledgements of PROY109,-1: LOG109,1 and LOG109,0.
LOG109(status) == <<"LOG109", <<status>>>>

\* The first line SendRecv('PROY109,-1', lines=1) can return; <<>>: it raises.
Replies109 == {LOG109(1), LOG109(0), OtherLine, <<>>}

\* data[0] != 'LOG109,1' is false: data[0] is bytes, the literal a str.
EraseAcked(line) == PyEq(Bytes(line), Str(LOG109(1)))

\* Erase (lines 828-842); reply: what its SendRecv meets.  When the
\* acknowledgement is taken, the loop receives lines until msg_timeout (2 s)
\* have passed since the last test-report line, and Erase returns True.
Erase(reply) ==
  /\ UNCHANGED notCM
  /\ cmOp # "idle"
  /\ cmOp' = "Erase"
  /\ cmSent' = <<"PROY109,-1">>
  /\ cmReply' = reply
  /\ IF reply = <<>>
     THEN cmRet' = [kind |-> "SerialCommunicationError"] /\ cmWaited' = FALSE
     ELSE IF ~EraseAcked(reply)
     THEN cmRet' = [kind |-> "False"] /\ cmWaited' = FALSE
     ELSE cmRet' = [kind |-> "True"] /\ cmWaited' = TRUE
  /\ UNCHANGED devClock

CMNext ==
  \/ \E reply \in Lines003 : GetTimestamp(reply)
  \/ \E reply \in Replies109 : Erase(reply)

(***************************************************************************)
(* RGM3800Waypoint.Parse on the bytes of one record.                       *)
(***************************************************************************)
\* The keys of FORMATS.
AllFormats == 0..4

\* n bytes of zero.
Zeros(n) == [k \in 1..n |-> 0]

\* The records of the model: fix-ok flag, hour, minute, second, then zeros,
\* of a format's length or one byte off it.
FlagBytes == {0, 1, 2}
HourBytes == {0, 23, 24}
MinuteBytes == {0, 59, 60}
SecondBytes == {0, 60}
Lengths ==
  UNION {{RawLen(f) - 1, RawLen(f), RawLen(f) + 1} : f \in AllFormats}
RawRecords ==
  {<<ok, h, mi, s>> \o Zeros(n - 4) :
     ok \in FlagBytes, h \in HourBytes, mi \in MinuteBytes,
     s \in SecondBytes, n \in Lengths}

\* datetime.time(h, m, s) raises ValueError outside these ranges.
ValidTime(h, mi, s) == h \in 0..23 /\ mi \in 0..59 /\ s \in 0..59

\* A test that takes any set flag for a fix.
FixOkNonzero(ok) == ok # 0

\* if ok != 1: raise ValueError
FixOk(ok) == ok = 1

\* Parse(data) of a waypoint of format fmt (lines 296-325): the exception
\* raised, or "parsed" and the timestamp.  The other fields are struct
\* unpacks of slices of fixed length, which cannot fail once the length is
\* right.
ParseOutcome(fmt, bytes) ==
  IF Len(bytes) # RawLen(fmt) THEN [kind |-> "AssertionError"]
  ELSE IF ~FixOk(bytes[1]) THEN [kind |-> "ValueError"]
  ELSE IF ~ValidTime(bytes[2], bytes[3], bytes[4])
  THEN [kind |-> "ValueError"]
  ELSE [kind |-> "parsed", h |-> bytes[2], m |-> bytes[3], s |-> bytes[4]]

WPInit ==
  /\ wpFormat \in AllFormats
  /\ wpData \in RawRecords
  /\ wpOutcome = [kind |-> "none"]

\* No record at hand: the state of the layers that do not parse one.
WPIdle ==
  /\ wpFormat = 0
  /\ wpData = <<>>
  /\ wpOutcome = [kind |-> "idle"]

\* RGM3800Waypoint(format).Parse(data)
Parse ==
  /\ UNCHANGED notWP
  /\ wpOutcome = [kind |-> "none"]
  /\ wpOutcome' = ParseOutcome(wpFormat, wpData)
  /\ UNCHANGED <<wpFormat, wpData>>

WPNext == Parse

(***************************************************************************)
(* The specifications, one per layer.                                      *)
(***************************************************************************)
InitSendRecv == SRInit /\ SEIdle /\ RWIdle /\ FRIdle /\ TSIdle /\ CMIdle /\ WPIdle
NextSendRecv == SRNext
SpecSendRecv == InitSendRecv /\ [][NextSendRecv]_vars
\* SendRecv runs on the single foreground thread, which always takes its next
\* step; conn.read returns within its one-second deadline.
FairSendRecv == SpecSendRecv /\ WF_vars(NextSendRecv)

InitSession == SEInit /\ SRIdle /\ RWIdle /\ FRIdle /\ TSIdle /\ CMIdle /\ WPIdle
NextSession == SENext
SpecSession == InitSession /\ [][NextSession]_vars

InitRetrieve == RWInit /\ SRIdle /\ SEIdle /\ FRIdle /\ TSIdle /\ CMIdle /\ WPIdle
NextRetrieve == RWNext
SpecRetrieve == InitRetrieve /\ [][NextRetrieve]_vars
\* The program takes its next step whenever it has one; what the device
\* sends, and when it falls silent, is left open.
FairRetrieve == SpecRetrieve /\ WF_vars(NextRetrieve)

InitFramer == FRInit /\ SRIdle /\ SEIdle /\ RWIdle /\ TSIdle /\ CMIdle /\ WPIdle
NextFramer == FRNext
SpecFramer == InitFramer /\ [][NextFramer]_vars

InitTransport == TSInit /\ SRIdle /\ SEIdle /\ RWIdle /\ FRIdle /\ CMIdle /\ WPIdle
NextTransport == TSNext
SpecTransport == InitTransport /\ [][NextTransport]_vars

InitCommands ==
  CMInit /\ SRIdle /\ SEIdle /\ RWIdle /\ FRIdle /\ TSIdle /\ WPIdle
NextCommands == CMNext
SpecCommands == InitCommands /\ [][NextCommands]_vars

InitParse ==
  WPInit /\ SRIdle /\ SEIdle /\ RWIdle /\ FRIdle /\ TSIdle /\ CMIdle
NextParse == WPNext
SpecParse == InitParse /\ [][NextParse]_vars

(***************************************************************************)
(* Claims about SendRecv.                                                  *)
(***************************************************************************)
\* C1: if the device never responds (RecvMessage never returns a line),
\* SendRecv ends, having sent the command exactly 5 times, by raising
\* SerialCommunicationError; it neither returns nor runs forever.
C1_SilentDeviceFailsAfterFive ==
  ([]silent) => <>(srPc = "done" /\ srOutcome = "raised" /\ sends = 5)

C1_Witness ==
  srPc = "done" /\ silent /\ srOutcome = "raised" /\ sends = 5

\* C2: every line of the list SendRecv returns was received after the last
\* send: no line collected during an earlier, failed attempt is part of it.
C2_NoCarryOver ==
  (srPc = "done" /\ srOutcome = "returned") => carried = 0

\* C3: for a nonzero line count n, SendRecv ends either by returning exactly
\* n lines, each starting with the prefix when one was given, or by raising.
C3_ExactCountOrRaise ==
  (srPc = "done" /\ lines # 0) =>
    IF srOutcome = "returned"
    THEN /\ Len(result_lines) = lines
         /\ Truthy(result) =>
              \A k \in 1..Len(result_lines) : StartsWith(result_lines[k], result)
    ELSE srOutcome = "raised"

C3_Witness ==
  /\ srPc = "done" /\ srOutcome = "returned"
  /\ lines = 2 /\ Truthy(result) /\ Len(result_lines) = 2
  /\ lines_acceptable < BaseAcceptable + PerLineAcceptable * lines - 2

(***************************************************************************)
(* Claims about the device session.                                        *)
(***************************************************************************)
\* C4: a SetInterval(v) answered LOG104,1 and followed by GetInfo makes
\* GetInfo return an info tuple whose interval is v and whose format and
\* memory-full policy are those configured before the set call.
C4_GetInfoAfterSetInterval ==
  [][(/\ lastOp = "SetInterval" /\ lastStatus = "1"
      /\ lastOp' = "GetInfo" /\ lastRet' # "raised")
     => /\ Item(lastRet', 5) = lastArg
        /\ Item(lastRet', 0) = devBefore[2]
        /\ Item(lastRet', 3) = devBefore[3]]_vars

\* C5: while every set call is answered LOG104,1, the PROY104 command of each
\* set call carries, in the two fields the call does not change, the values
\* configured on the device when the call was made.
C5_SetPreservesOtherFields ==
  (allOk /\ lastCmd # <<>>) =>
    /\ lastOp # "SetInterval" => lastCmd[1] = devBefore[1]
    /\ lastOp # "SetFormat" => lastCmd[2] = devBefore[2]
    /\ lastOp # "SetMemoryFull" => lastCmd[3] = devBefore[3]

(***************************************************************************)
(* Claims about bulk retrieval.                                            *)
(***************************************************************************)
\* ceil(n / p)
CeilDiv(n, p) == (n + p - 1) \div p
MinOf(a, b) == IF a < b THEN a ELSE b
\* The records of the page a request names.
Page == Requested(address, format, amount)
\* How many of the records have a fix-ok flag other than 1.
NoFix(recs) == Len(SelectSeq(recs, LAMBDA r : r.ok # 1))

\* C6: unless it ends in a communication error, GetWaypoints for a track of
\* N waypoints of record length L returns, having requested ceil(N/P) pages,
\* P = floor(4800/L), page j of min(P, N - (j-1)*P) records at the track's
\* address plus (j-1)*P*L, and returns the track's N records in memory order.
C6_PagesCoverTrack ==
  (gwPc = "done" /\ gwOutcome # "raised") =>
    LET L == RawLen(gwTrack[1])
        N == gwTrack[2]
        P == BytesPerRequest \div L
    IN  /\ gwOutcome = "returned"
        /\ Len(pages) = CeilDiv(N, P)
        /\ \A j \in 1..Len(pages) :
             pages[j] = <<gwTrack[3] * L + (j - 1) * P * L,
                          MinOf(P, N - (j - 1) * P)>>
        /\ waypoints = [k \in 1..N |-> devMem[gwTrack[3] + k]]

\* C7: a page retrieval that returns, its records all decodable, returns
\* exactly the records of the requested range, in order, none missing and
\* none twice, however many times the request was sent.
C7_ReturnedPageIsComplete ==
  (/\ rwPc = "done" /\ rwOutcome = "returned" /\ rwCaller = "direct"
   /\ \A k \in 1..amount : Parses(Page[k]))
  => wps = Page

\* C8: when the whole page arrives on the first request, k of its records
\* with a fix-ok flag other than 1 and the others valid, the retrieval is past
\* its receive loop with every record counted, has raised nothing, has sent no
\* second request, and holds count - k waypoints.
C8_BadRecordsAreSkipped ==
  (/\ rwCaller = "direct" /\ rwArrived = amount
   /\ \A k \in 1..amount : Page[k].hms)
  => /\ rwSends = 1
     /\ retrieved = amount
     /\ rwPc \in {"loop", "done"}
     /\ rwOutcome \in {"none", "returned"}
     /\ Len(wps) = amount - NoFix(Page)

C8_Witness ==
  /\ rwCaller = "direct" /\ rwArrived = amount /\ amount = 2
  /\ \A k \in 1..amount : Page[k].hms
  /\ NoFix(Page) = 1
  /\ rwPc = "done" /\ rwOutcome = "returned" /\ Len(wps) = 1

\* C9: a page retrieval sends its request at most 5 times; when, the fifth
\* request sent, its count of wire records still differs from the target, its
\* next step is to raise SerialCommunicationError, and it returns only with
\* the count at the target.
C9_FiveRequestsThenRaise ==
  [][/\ rwSends' <= 5
     /\ (rwPc = "loop" /\ rwSends = 5 /\ retrieved # amount)
          => rwOutcome' = "raised"
     /\ rwOutcome' = "returned" => retrieved' = amount]_vars

C9_Witness ==
  rwPc = "done" /\ rwOutcome = "raised" /\ rwSends = 5 /\ retrieved # amount

(***************************************************************************)
(* Claims about the framer.                                                *)
(***************************************************************************)
\* The payload starts with three uppercase letters.
UpperTag(p) == \A k \in 1..3 : p[k] \in UpperAtoZ

\* C10: for a line $<payload>*HH\r\n whose payload starts with three
\* uppercase letters, read to its end with nothing after it, RecvMessage
\* returns the payload exactly when HH is the XOR of the payload's bytes as
\* two uppercase hex digits.
C10_AcceptsIffChecksum ==
  (/\ frPc = "done" /\ frIn.next = <<>> /\ stream = <<>>
   /\ UpperTag(frIn.payload))
  => (frRet = frIn.payload <=> frIn.hh = NMEACalcChecksum(frIn.payload))

\* C11: when a line is dropped for a checksum mismatch the framer is back in
\* its start state with nothing gathered, in the same call and with nothing
\* returned or raised; and once the stream is read to its end the call has
\* returned the valid line that begins at the next `$`.
C11_DropThenNextLine ==
  /\ [][frDropped' > frDropped =>
          /\ state' = "start" /\ msg' = <<>>
          /\ frPc' = "run" /\ frRet' = "none"]_vars
  /\ []((/\ frPc = "done" /\ stream = <<>>
         /\ frDropped > 0 /\ frIn.follower # <<>>)
        => frRet = frIn.follower)

\* The `$` and the three bytes after it have been read, and no more.
TagRead ==
  frPc = "run" /\ Len(stream) = Len(frIn.payload) + 2 + Len(frIn.next)

\* The first line has been read to its end, and no more.
FirstLineRead == frPc = "run" /\ Len(stream) = Len(frIn.next)

\* C12: after `$` and three more bytes the framer is in the line state exactly
\* when the three bytes are uppercase letters A to Z; otherwise it is in a
\* skip state, and at the line's CRLF it is back at start with the line
\* discarded.
C12_LineStateIffUpperTag ==
  /\ TagRead =>
       /\ state = "line" <=> UpperTag(frIn.payload)
       /\ ~UpperTag(frIn.payload) => state \in {"skipnl", "skipnl1"}
  /\ (FirstLineRead /\ ~UpperTag(frIn.payload)) =>
       (state = "start" /\ msg = <<>> /\ frRet = "none" /\ frDropped = 0)

(***************************************************************************)
(* Claims about the transport.                                             *)
(***************************************************************************)
\* The receiver thread is in its loop and has not been told to stop.
ReaderAlive == receiver_running /\ rtPc \in {"loop", "read"}

\* The last foreground call was a read, and it is over.
ReadOver == fgPc = "idle" /\ call.op = "read"

\* d holds the bytes first, first + 1, ... : arrival order, none left out.
InArrivalOrder(d, first) == \A k \in 1..Len(d) : d[k] = first + k - 1

\* C13: a read(n) that ends while the receiver is alive, and for which fewer
\* than n bytes were there by its deadline, returns without an error the
\* bytes that arrived, in arrival order: all those that were there before
\* the last polling period of the deadline, none that came after it (none at
\* all when nothing arrived).
C13_ShortReadWhileAlive ==
  (ReadOver /\ ReaderAlive /\ call.by < call.n)
  => /\ fgOutcome = "returned"
     /\ call.before <= Len(data) /\ Len(data) <= call.by
     /\ InArrivalOrder(data, call.first)

C13_Witness ==
  /\ ReadOver /\ ReaderAlive /\ call.by < call.n
  /\ fgOutcome = "returned" /\ Len(data) = 1 /\ call.before = 1

\* C14: a write() begun after a close() has returned, or after the receiver
\* thread is over, raises SerialConnectionLost and issues no os.write.
C14_WriteAfterLossFails ==
  (call.op = "write" /\ call.lost)
  => /\ fgPc = "idle" /\ fgOutcome = "SerialConnectionLost"
     /\ written = call.written

C14_Witness ==
  /\ call.op = "write" /\ call.lost /\ ~closed
  /\ rtExc = "SerialConnectionLost"
  /\ fgOutcome = "SerialConnectionLost"

\* C15: a read(n) begun after the receiver thread is over, with fewer than n
\* bytes buffered, ends with SerialConnectionLost.
C15_ReadAfterLossFails ==
  (ReadOver /\ call.dead /\ call.buffered < call.n)
  => fgOutcome = "SerialConnectionLost"

\* C16: os.close is issued on the descriptor at most once, and exactly once
\* when a close() has returned or the receiver thread is over.
C16_ReleasedExactlyOnce ==
  /\ closeCalls <= 1
  /\ (closed \/ rtPc = "dead") => closeCalls = 1

\* C20: no os.read and no os.write is issued on a descriptor that was closed
\* or cleared.
C20_NoUseAfterRelease == ~useAfter

(***************************************************************************)
(* Claims about GetTimestamp and Erase.                                    *)
(***************************************************************************)
\* C17: when PROY003 is answered with a LOG002 line GetTimestamp returns None
\* and raises nothing; when it is answered with LOG003,<date>,<time> it
\* returns the device's date and time.
C17_TimestampOrUnavailable ==
  cmOp = "GetTimestamp" =>
    /\ cmReply = LOG002 => cmRet = [kind |-> "None"]
    /\ (devClock # NoLock /\ cmReply = LOG003(devClock)) =>
         cmRet = [kind |-> "datetime",
                  year |-> devClock.year, month |-> devClock.month,
                  day |-> devClock.day, hour |-> devClock.hour,
                  min |-> devClock.min, sec |-> devClock.sec]

C17_Witness ==
  cmOp = "GetTimestamp" /\ cmReply = LOG002 /\ cmRet = [kind |-> "None"]

\* C18: when PROY109,-1 is acknowledged with LOG109,1, Erase waits until no
\* test-report line has come for the quiet period and then returns True; it
\* returns False only when the acknowledgement is another line.
C18_EraseWaitsThenCompletes ==
  cmOp = "Erase" =>
    /\ cmReply = LOG109(1) => (cmRet = [kind |-> "True"] /\ cmWaited)
    /\ cmRet = [kind |-> "False"] => cmReply # LOG109(1)

(***************************************************************************)
(* Claims about Parse.                                                     *)
(***************************************************************************)
Parsed == wpOutcome.kind = "parsed"
Failed == wpOutcome.kind \in {"AssertionError", "ValueError"}
ParseOver == wpOutcome.kind # "none"
RightLength == Len(wpData) = RawLen(wpFormat)

\* C19 as stated: Parse fails on a record of the wrong length, fails on a
\* record whose first byte is not 1, and decodes every record of the right
\* length whose first byte is 1.
C19_EveryFixOkRecordDecodes ==
  ParseOver =>
    /\ ~RightLength => Failed
    /\ wpData[1] # 1 => Failed
    /\ (RightLength /\ wpData[1] = 1) => Parsed

\* C19 as amended: Parse fails on a record of the wrong length, fails on a
\* record whose first byte is not 1, and decodes a record of the right length
\* whose first byte is 1 exactly when its hour, minute and second bytes are a
\* time of day; otherwise it fails with ValueError.
C19_ValidFixOkRecordDecodes ==
  ParseOver =>
    /\ ~RightLength => Failed
    /\ wpData[1] # 1 => Failed
    /\ (RightLength /\ wpData[1] = 1) =>
         IF wpData[2] < 24 /\ wpData[3] < 60 /\ wpData[4] < 60
         THEN wpOutcome = [kind |-> "parsed", h |-> wpData[2],
                           m |-> wpData[3], s |-> wpData[4]]
         ELSE wpOutcome = [kind |-> "ValueError"]

C19_Witness ==
  /\ Parsed /\ wpFormat = 4 /\ Len(wpData) = 60
  /\ wpOutcome.h = 23 /\ wpOutcome.m = 59

(***************************************************************************)
(* More claims about _RetrieveWaypoints.                                   *)
(***************************************************************************)
\* C21: every call of _RetrieveWaypoints eventually returns or raises,
\* whatever the device sends.
C21_RetrievalTerminates == (rwPc \in {"loop", "recv"}) ~> (rwPc = "done")

\* A step in which RecvMessage returns at least one line to the loop.
LineReceived ==
  \/ \E k \in 1..MaxPerLine : RWRecords(k)
  \/ \E kind \in NoiseKinds : RWNoise(kind)
NoiseReceived == \E kind \in NoiseKinds : RWNoise(kind)
Aborted == rwPc = "done" /\ rwOutcome = "noise"
\* The part of the counter that malformed headers added.
Penalty == noise - rwOther

\* C22 as stated: the attempt aborts as soon as a budget is exceeded, the
\* budgets being more than 100 lines that are no LOG102 lines and a
\* malformed-header penalty above 20: a line received with either budget
\* already exceeded is not processed, the call raises.
C22_AbortsOverEitherBudget ==
  [][(LineReceived /\ (rwOther > NoiseLimit \/ Penalty > HeaderPenalty))
       => Aborted']_vars

\* C22, amended: the attempt has one counter, 1 for each line that is no
\* LOG102 line and 20 for each malformed header; the call raises exactly
\* when a line is received with the counter above 100, and until then such
\* lines add no record and the attempt goes on receiving.
C22_AbortsWhenCounterOver ==
  [][LineReceived =>
       /\ noise > NoiseLimit => Aborted'
       /\ Aborted' => noise' > NoiseLimit
       /\ (NoiseReceived /\ ~Aborted') =>
            /\ noise' - (IF noise' - noise = NoiseBurst THEN 1
                         ELSE noise' - noise) <= NoiseLimit
            /\ wps' = wps /\ retrieved' = retrieved /\ rwPc' = "recv"]_vars
\* The call has raised for noise, part of it header penalties.
C22_Witness == Aborted /\ noise > NoiseLimit /\ Penalty > HeaderPenalty

(***************************************************************************)
(* More claims about GetWaypoints.                                         *)
(***************************************************************************)
\* The records of the track fetched by the first j pages.
RECURSIVE FetchedSoFar(_)
FetchedSoFar(j) == IF j = 0 THEN 0 ELSE FetchedSoFar(j - 1) + pages[j][2]

\* C23: a GetWaypoints call for a track with records that ends without a
\* communication error has reported, after each page j, the progress
\* retrievedSoFar * 100 / total, retrievedSoFar the track's records fetched
\* by pages 1..j; the values do not decrease and the last one is 100.
C23_ProgressAfterEachPage ==
  (gwPc = "done" /\ gwOutcome # "raised" /\ number > 0) =>
    /\ gwI >= 1 /\ gwI = Len(pages) /\ Len(progress) >= 1 + gwI
    /\ \A j \in 1..gwI :
         /\ progress[1 + j].num = FetchedSoFar(j) * 100
         /\ progress[1 + j].den = number
    /\ \A j \in 1..(gwI - 1) : progress[1 + j].num <= progress[2 + j].num
    /\ progress[1 + gwI].num = 100 * progress[1 + gwI].den

(***************************************************************************)
(* More claims about SendRecv.                                             *)
(***************************************************************************)
\* C24: an attempt of SendRecv receives at most 20 + 5*lines lines after its
\* send, the lines it does not keep counted with the others, and goes on
\* receiving only while fewer lines have been received, the list does not
\* hold `lines` lines, and no receive has timed out.
C24_BudgetPerAttempt ==
  [][/\ received' <= 20 + 5 * lines'
     /\ kept' <= received'
     /\ srPc' = "recv" =>
          /\ received' < 20 + 5 * lines'
          /\ ~(lines' # 0 /\ Len(result_lines') = lines')
     /\ SRRecvTimeout => srPc' # "recv"]_vars

\* An attempt has used up its budget on lines it did not keep.
C24_Witness ==
  srPc = "after" /\ lines = 1 /\ received = 25 /\ kept = 0

(***************************************************************************)
(* More claims about the transport.                                        *)
(***************************************************************************)
\* C25: the bytes read calls hand to their callers, put end to end, are a
\* prefix of the bytes the receiver thread pushed, in push order: the bytes
\* a read returns are those that follow the bytes handed by the reads before
\* it, whether those returned or raised.
C25_ReadsHandPrefix ==
  (ReadOver /\ fgOutcome = "returned") =>
    data = [k \in 1..Len(data) |-> call.handed + k]

(***************************************************************************)
(* More claims about the device session.                                   *)
(***************************************************************************)
\* C26: a GetInfo that follows a GetInfo that returned, no other call in
\* between, sends no command to the device and returns the same info tuple.
C26_SecondGetInfoFromCache ==
  [][(lastOp = "GetInfo" /\ lastRet # "raised" /\ lastOp' = "GetInfo")
       => (lastSent' = <<>> /\ lastRet' = lastRet)]_vars

\* A GetInfo has been answered from the cache.
C26_Witness ==
  /\ lastOp = "GetInfo" /\ lastSent = <<>>
  /\ Truthy(cached_info) /\ lastRet = cached_info

SetCalls == {"SetInterval", "SetFormat", "SetMemoryFull", "SetGPSMouse"}

\* C29: a set call whose LOG104 / LOG103 reply arrived returns true when the
\* reply's status field is 1 and false when it is 0.
C29_SetReturnsStatus ==
  (lastOp \in SetCalls /\ lastStatus \in {"0", "1"}) =>
    lastRet = (lastStatus = "1")

(***************************************************************************)
(* More claims about the framer.                                           *)
(***************************************************************************)
\* The bytes of the stream, and those conn.read has delivered so far.
Wire == Framed(frIn.payload, frIn.hh) \o frIn.next
Consumed == SubSeq(Wire, 1, Len(Wire) - Len(stream))

\* The last n bytes of s.
LastOf(s, n) == SubSeq(s, Len(s) - n + 1, Len(s))

\* C27: RecvMessage returns the empty value only on a read that timed out;
\* any other value it returns has at least three bytes, the first three
\* uppercase letters, and is what stood between `$` and `*HH\r\n` at the end
\* of the bytes read, HH the two hex digits of its XOR checksum.
C27_ReturnsValidatedPayload ==
  [][(frPc = "run" /\ frPc' = "done") =>
       IF frRet' = <<>>
       THEN stream' = stream
       ELSE /\ frRet' # "AssertionError"
            /\ Len(frRet') >= 3
            /\ \A k \in 1..3 : frRet'[k] \in UpperAtoZ
            /\ LET whole == <<DOLLAR>> \o frRet' \o <<STAR>>
                              \o NMEACalcChecksum(frRet') \o <<CR, LF>>
               IN  /\ Len(Consumed') >= Len(whole)
                   /\ LastOf(Consumed', Len(whole)) = whole]_vars

\* RecvMessage has returned a payload, one that holds a `*` of its own.
C27_Witness ==
  frPc = "done" /\ frRet = <<65, 65, 65, STAR>>

(***************************************************************************)
(* More claims about the count of a page retrieval.                        *)
(***************************************************************************)
\* C28: during a page retrieval the count of wire records accepted for the
\* page never exceeds the page's target count, whatever the attempt and
\* however the device packs the records into lines.
C28_CountWithinTarget == rwPc # "idle" => retrieved <= amount

====
